---- MODULE Spec2Model ----
(***************************************************************************)
(* Horizon (src/app.js): the interaction/state engine of the canvas.       *)
(*                                                                         *)
(* JavaScript objects are references: state.nodes, nodeUndo and nodeRedo   *)
(* hold the same node objects, so the model keeps a heap (ref -> record)   *)
(* and sequences of refs.  The clipboard, the storage blob and imported    *)
(* files are JSON text, hence values.  Numbers are integers; zoom is kept  *)
(* in tenths (10 is the code's 1.0).  A node's data map is reduced to its  *)
(* primary field (text of a note, title of a zone); the catalogue of 13    *)
(* primitive types is reduced to "zone" and "note" (every non-zone type    *)
(* is rendered by the same branch of render()).                            *)
(***************************************************************************)
EXTENDS Integers, Sequences, FiniteSets, TLC

VARIABLES
    zoom, panX, panY,            \* app.js:6   viewport transform
    shiftDown, ctrlDown,         \* app.js:7   modifier flags
    interactionMode,             \* app.js:8
    selectedIds, focusedId,      \* app.js:10-11
    nodes, heap,                 \* app.js:15  state.nodes (refs) and the node objects
    edges, drawings, textDrawings, \* app.js:16-18
    clipboard,                   \* app.js:22
    nodeUndo, nodeRedo,          \* app.js:33-34
    selecting, selectStart,      \* app.js:36-37
    lastBox,                     \* history: the box the latest release completed
    panning, panStart,           \* app.js:473-474
    isDirty, saveTimer,          \* app.js:42-43  (saveTimer: a timeout handle, or Null)
    timers,                      \* the browser's pending timeouts: handle -> time left
    sinceCall, writes,           \* history: time since the last scheduleSave() call,
                                 \*          write attempts since that call
    lastWrite,                   \* history: outcome of the latest write attempt
    burst,                       \* history: length of the current run of coalesced calls
    storage,                     \* localStorage[STORAGE_KEY]
    dom, domFocused,             \* the .node elements render() left in #canvas
    drag,                        \* window mousemove/mouseup listeners of a node gesture
    drawRedo, activeDraw,        \* app.js:32, 23  (activeDraw: id of the stroke being
                                 \* drawn, or Null); drawUndo (app.js:31) is only
                                 \* ever pushed to and never read: it is left out
    mouseDown, pressedOn         \* environment: a mouse button is held, and the node
                                 \* element it went down on (Null: none)

viewVars  == <<zoom, panX, panY>>
keyVars   == <<shiftDown, ctrlDown>>
selVars   == <<selectedIds, focusedId>>
docVars   == <<nodes, heap, edges, drawings, textDrawings>>
ledgerVars == <<nodeUndo, nodeRedo>>
boxVars   == <<selecting, selectStart, lastBox>>
panVars   == <<panning, panStart>>
saveVars  == <<isDirty, saveTimer, timers, sinceCall, writes, lastWrite, burst>>
domVars   == <<dom, domFocused>>
strokeVars == <<drawRedo, activeDraw>>

vars == <<zoom, panX, panY, shiftDown, ctrlDown, interactionMode, selectedIds,
          focusedId, nodes, heap, edges, drawings, textDrawings, clipboard,
          nodeUndo, nodeRedo, selecting, selectStart, lastBox, panning, panStart,
          isDirty, saveTimer, timers, sinceCall, writes, lastWrite, burst, storage, dom,
          domFocused, drag, drawRedo, activeDraw, mouseDown, pressedOn>>

----------------------------------------------------------------------------
(* Bounds of the exploration *)

MaxObjs   == 2      \* node objects alive at once (state.nodes and both ledgers)
MaxIds    == 2      \* distinct node ids in play
MaxLedger == 2      \* depth of nodeUndo
MaxShift  == 1      \* how many paste offsets a node may lie away from where it spawns

(* Environment: half the viewport's client size (getBoundingClientRect) *)
ViewCx == 500
ViewCy == 400

(* Program constants *)
Null        == 0    \* JS null / falsy id
Delay       == 300  \* setTimeout delay of scheduleSave
PasteOffset == 40

Refs == 1..MaxObjs
Ids  == 1..MaxIds
NoBlob  == [absent |-> TRUE]
NoDrag  == [kind |-> "none"]
NoBox   == [none |-> TRUE]
NoClip  == [type |-> "none", nodes |-> <<>>]
FreeCell == [id |-> Null]

PrimitiveTypes == {"zone", "note"}

Min(a, b) == IF a < b THEN a ELSE b
Max(a, b) == IF a > b THEN a ELSE b
Range(s)  == {s[i] : i \in 1..Len(s)}

RECURSIVE SeqOfSet(_)
SeqOfSet(S) == IF S = {} THEN <<>>
               ELSE LET m == CHOOSE x \in S : \A y \in S : x <= y
                    IN <<m>> \o SeqOfSet(S \ {m})

RECURSIVE Flatten(_)
Flatten(ss) == IF ss = <<>> THEN <<>> ELSE Head(ss) \o Flatten(Tail(ss))

----------------------------------------------------------------------------
(* Heap helpers *)

Vals(rs, hp) == [i \in 1..Len(rs) |-> hp[rs[i]]]
IdsOf(rs, hp) == {hp[rs[i]].id : i \in 1..Len(rs)}

Reachable(ns, nu, nr, dr) ==
    Range(ns) \cup Range(Flatten(nu)) \cup Range(Flatten(nr))
    \cup (IF dr.kind = "resize" THEN {dr.node} ELSE {})

Collect(hp, live) == [r \in Refs |-> IF r \in live THEN hp[r] ELSE FreeCell]

FreeRefs(hp, live) == Refs \ live

(* the k lowest refs outside `live`, as a sequence *)
AllocRefs(k, live) == SubSeq(SeqOfSet(Refs \ live), 1, k)

----------------------------------------------------------------------------
(* render(): app.js:972-1194.  canvas.innerHTML is emptied, then the nodes  *)
(* are drawn zones first.  A non-zone node whose type is not a key of       *)
(* `primitives` makes primitives[node.type].label throw before its element  *)
(* is appended: the elements drawn so far stay, the rest of the calling     *)
(* handler is skipped.                                                      *)

IsZone(rec)    == rec.type = "zone"
Renderable(rec) == rec.type \in PrimitiveTypes

RenderOrder(ns, hp) ==
    SelectSeq(ns, LAMBDA r : IsZone(hp[r])) \o SelectSeq(ns, LAMBDA r : ~IsZone(hp[r]))

RenderThrows(ns, hp) == \E i \in 1..Len(ns) : ~Renderable(hp[ns[i]])

Rendered(ns, hp) ==
    LET order == RenderOrder(ns, hp)
        bad   == {i \in 1..Len(order) : ~Renderable(hp[order[i]])}
        stop  == IF bad = {} THEN Len(order) + 1
                 ELSE CHOOSE i \in bad : \A j \in bad : i <= j
    IN  {order[i] : i \in 1..(stop - 1)}

(* the elements given class "focused" (resize handles, zone title input) *)
RenderedFocused(ns, hp, fid) == {r \in Rendered(ns, hp) : hp[r].id = fid}

render(ns, hp, fid) ==
    /\ dom' = Rendered(ns, hp)
    /\ domFocused' = RenderedFocused(ns, hp, fid)

(* scheduleSave(): app.js:45-64, the part that runs in the caller *)
MaxTimers == 2
MaxBurst == 2
Handles == 1..MaxTimers
NewHandle(ts) == CHOOSE h \in Handles \ {t.h : t \in ts} : TRUE

clearTimeout(h, ts) == {t \in ts : t.h # h}

(* scheduleSave() without its clearTimeout(saveTimer) *)
scheduleSaveNoClear ==
    /\ isDirty' = TRUE
    /\ LET h == NewHandle(timers)
       IN  /\ Cardinality(timers) < Cardinality(Handles)
           /\ timers' = timers \cup {[h |-> h, left |-> Delay]}
           /\ saveTimer' = h
    /\ sinceCall' = 0
    /\ writes' = 0
    /\ burst' = IF isDirty /\ sinceCall < Delay THEN Min(burst + 1, MaxBurst) ELSE 1
    /\ UNCHANGED lastWrite

scheduleSave ==
    /\ isDirty' = TRUE
    /\ LET cleared == IF saveTimer # Null THEN clearTimeout(saveTimer, timers) ELSE timers
           h == NewHandle(cleared)
       IN  /\ Cardinality(cleared) < Cardinality(Handles)
           /\ timers' = cleared \cup {[h |-> h, left |-> Delay]}
           /\ saveTimer' = h
    /\ sinceCall' = 0
    /\ writes' = 0
    /\ burst' = IF isDirty /\ sinceCall < Delay THEN Min(burst + 1, MaxBurst) ELSE 1
    /\ UNCHANGED lastWrite

(* "render(); scheduleSave();" at the end of a handler *)
RenderThenSave(ns, hp, fid) ==
    /\ render(ns, hp, fid)
    /\ IF RenderThrows(ns, hp) THEN UNCHANGED saveVars ELSE scheduleSave

----------------------------------------------------------------------------
(* crypto.randomUUID(): an id no live object, selection, focus or drag      *)
(* closure holds.  Ids inside the clipboard, the storage blob and files are *)
(* never compared with a node's id, so reusing one of them is harmless.     *)

DragIds == IF drag.kind = "move" THEN DOMAIN drag.starts ELSE {}

UsedIds == {heap[r].id : r \in Refs} \cup selectedIds \cup {focusedId} \cup DragIds

FreshIds(k) == SubSeq(SeqOfSet(Ids \ UsedIds), 1, k)
CanMint(k)  == Cardinality(Ids \ UsedIds) >= k

LiveRefs == Reachable(nodes, nodeUndo, nodeRedo, drag)
CanAlloc(k) == Cardinality(Refs \ LiveRefs) >= k

----------------------------------------------------------------------------
Init ==
    /\ zoom = 10 /\ panX = 0 /\ panY = 0
    /\ shiftDown = FALSE /\ ctrlDown = FALSE
    /\ interactionMode = "normal"
    /\ selectedIds = {} /\ focusedId = Null
    /\ nodes = <<>> /\ heap = [r \in Refs |-> FreeCell]
    /\ edges = <<>> /\ drawings = <<>> /\ textDrawings = <<>>
    /\ clipboard = NoClip
    /\ nodeUndo = <<>> /\ nodeRedo = <<>>
    /\ selecting = FALSE /\ selectStart = <<0, 0>> /\ lastBox = NoBox
    /\ panning = FALSE /\ panStart = <<0, 0>>
    /\ isDirty = FALSE /\ saveTimer = Null /\ timers = {}
    /\ sinceCall = 0 /\ writes = 0 /\ lastWrite = "none" /\ burst = 0
    /\ storage = NoBlob
    /\ dom = {} /\ domFocused = {}
    /\ drag = NoDrag
    /\ drawRedo = <<>> /\ activeDraw = Null
    /\ mouseDown = FALSE /\ pressedOn = Null

----------------------------------------------------------------------------
(* spawn(type): app.js:848-935 *)

SpawnW(type) == IF type = "zone" THEN 700 ELSE 200
SpawnH(type) == IF type = "zone" THEN 450 ELSE 140

(* (screen - pan) / zoom, zoom in tenths *)
ToWorld(s, pan, z) == ((s - pan) * 10) \div z

(* the part of the world the exploration keeps nodes in *)
HomeX(type) == ViewCx - (SpawnW(IF type = "zone" THEN "zone" ELSE "note") \div 2)
HomeY(type) == ViewCy - (SpawnH(IF type = "zone" THEN "zone" ELSE "note") \div 2)
InWorld(rec) ==
    /\ rec.x - HomeX(rec.type) \in (-MaxShift * PasteOffset)..(MaxShift * PasteOffset)
    /\ rec.y - HomeY(rec.type) \in (-MaxShift * PasteOffset)..(MaxShift * PasteOffset)

spawn(type) ==
    /\ CanAlloc(1) /\ CanMint(1)
    /\ LET ref == AllocRefs(1, LiveRefs)[1]
           id  == FreshIds(1)[1]
           cx  == ToWorld(ViewCx, panX, zoom)
           cy  == ToWorld(ViewCy, panY, zoom)
           w   == SpawnW(type)
           h   == SpawnH(type)
           rec == [id |-> id, type |-> type, x |-> cx - (w \div 2), y |-> cy - (h \div 2),
                   w |-> w, h |-> h, data |-> IF type = "zone" THEN "ZONE" ELSE ""]
           ns  == Append(nodes, ref)
           hp  == [heap EXCEPT ![ref] = rec]
       IN  /\ nodes' = ns
           /\ heap' = hp
           /\ focusedId' = id
           /\ selectedIds' = {id}
           /\ RenderThenSave(ns, hp, id)
    /\ UNCHANGED <<viewVars, keyVars, interactionMode, edges, drawings, textDrawings,
                   clipboard, ledgerVars, boxVars, panVars, storage, drag, mouseDown, pressedOn, strokeVars>>

----------------------------------------------------------------------------
(* window keydown / keyup: app.js:296-438 *)

KeyDownShift   == shiftDown' = TRUE  /\ UNCHANGED <<viewVars, ctrlDown, interactionMode, selVars, docVars, clipboard, ledgerVars, boxVars, panVars, saveVars, storage, domVars, drag, mouseDown, pressedOn, strokeVars>>
KeyDownControl == ctrlDown' = TRUE   /\ UNCHANGED <<viewVars, shiftDown, interactionMode, selVars, docVars, clipboard, ledgerVars, boxVars, panVars, saveVars, storage, domVars, drag, mouseDown, pressedOn, strokeVars>>
KeyUpShift     == shiftDown' = FALSE /\ UNCHANGED <<viewVars, ctrlDown, interactionMode, selVars, docVars, clipboard, ledgerVars, boxVars, panVars, saveVars, storage, domVars, drag, mouseDown, pressedOn, strokeVars>>
KeyUpControl   == ctrlDown' = FALSE  /\ UNCHANGED <<viewVars, shiftDown, interactionMode, selVars, docVars, clipboard, ledgerVars, boxVars, panVars, saveVars, storage, domVars, drag, mouseDown, pressedOn, strokeVars>>

(* the array operations of the node ledger, app.js:317-345 *)

(* a filter that keeps only the first node carrying one of the ids *)
WithIdsFirstOnly(ns, hp, ids) ==
    LET all == SelectSeq(ns, LAMBDA r : hp[r].id \in ids)
    IN  SubSeq(all, 1, Min(1, Len(all)))

(* state.nodes.filter(n => ids.includes(n.id)) *)
WithIds(ns, hp, ids) == SelectSeq(ns, LAMBDA r : hp[r].id \in ids)

(* state.nodes.filter(n => !ids.includes(n.id)) *)
WithoutIds(ns, hp, ids) == SelectSeq(ns, LAMBDA r : hp[r].id \notin ids)

(* an undo that pushes back only the first node of the batch *)
UndoNodesFirstOnly(ns, last) == ns \o SubSeq(last, 1, Min(1, Len(last)))

(* state.nodes.push(...last) *)
UndoNodes(ns, last) == ns \o last

(* state.nodes.filter(n => !last.map(n => n.id).includes(n.id)) *)
RedoNodes(ns, hp, last) == WithoutIds(ns, hp, IdsOf(last, hp))

(* Delete key, app.js:300-327; `ok` is the answer to confirm() *)
KeyDelete(ok) ==
    /\ selectedIds # {} \/ focusedId # Null
    /\ Len(nodeUndo) < MaxLedger
    /\ LET idsToDelete == IF selectedIds # {} THEN selectedIds ELSE {focusedId}
           deleted == WithIds(nodes, heap, idsToDelete)
           ns      == WithoutIds(nodes, heap, idsToDelete)
           nu      == Append(nodeUndo, deleted)
           hp      == Collect(heap, Reachable(ns, nu, <<>>, drag))
       IN  IF ~ok THEN UNCHANGED vars
           ELSE /\ nodeUndo' = nu
                /\ nodeRedo' = <<>>
                /\ nodes' = ns
                /\ heap' = hp
                /\ selectedIds' = {}
                /\ focusedId' = Null
                /\ RenderThenSave(ns, hp, Null)
                /\ UNCHANGED <<viewVars, keyVars, interactionMode, edges, drawings,
                               textDrawings, clipboard, boxVars, panVars, storage, drag, mouseDown, pressedOn, strokeVars>>

(* an undo that takes the oldest batch of the ledger instead of the latest *)
NodeUndoOldest ==
    /\ interactionMode = "normal" /\ ctrlDown
    /\ nodeUndo # <<>>
    /\ LET last == nodeUndo[1]
           ns   == UndoNodes(nodes, last)
       IN  /\ nodeUndo' = Tail(nodeUndo)
           /\ nodes' = ns
           /\ nodeRedo' = Append(nodeRedo, last)
           /\ RenderThenSave(ns, heap, focusedId)
    /\ UNCHANGED <<viewVars, keyVars, interactionMode, selVars, heap, edges, drawings,
                   textDrawings, clipboard, boxVars, panVars, storage, drag, mouseDown, pressedOn, strokeVars>>

(* a node undo that does not look at the mode *)
NodeUndoAnyMode ==
    /\ ctrlDown
    /\ nodeUndo # <<>>
    /\ LET last == nodeUndo[Len(nodeUndo)]
           ns   == UndoNodes(nodes, last)
       IN  /\ nodeUndo' = SubSeq(nodeUndo, 1, Len(nodeUndo) - 1)
           /\ nodes' = ns
           /\ nodeRedo' = Append(nodeRedo, last)
           /\ RenderThenSave(ns, heap, focusedId)
    /\ UNCHANGED <<viewVars, keyVars, interactionMode, selVars, heap, edges, drawings,
                   textDrawings, clipboard, boxVars, panVars, storage, drag, mouseDown, pressedOn, strokeVars>>

(* Ctrl+Z in normal mode, app.js:329-338 *)
NodeUndo ==
    /\ interactionMode = "normal" /\ ctrlDown
    /\ nodeUndo # <<>>
    /\ LET last == nodeUndo[Len(nodeUndo)]
           ns   == UndoNodes(nodes, last)
       IN  /\ nodeUndo' = SubSeq(nodeUndo, 1, Len(nodeUndo) - 1)
           /\ nodes' = ns
           /\ nodeRedo' = Append(nodeRedo, last)
           /\ RenderThenSave(ns, heap, focusedId)
    /\ UNCHANGED <<viewVars, keyVars, interactionMode, selVars, heap, edges, drawings,
                   textDrawings, clipboard, boxVars, panVars, storage, drag, mouseDown, pressedOn, strokeVars>>

(* Ctrl+Y in normal mode, app.js:340-350 *)
NodeRedo ==
    /\ interactionMode = "normal" /\ ctrlDown
    /\ nodeRedo # <<>>
    /\ LET last == nodeRedo[Len(nodeRedo)]
           ns   == RedoNodes(nodes, heap, last)
           nu   == Append(nodeUndo, last)
           nr   == SubSeq(nodeRedo, 1, Len(nodeRedo) - 1)
           hp   == Collect(heap, Reachable(ns, nu, nr, drag))
       IN  /\ nodeRedo' = nr
           /\ nodes' = ns
           /\ nodeUndo' = nu
           /\ heap' = hp
           /\ RenderThenSave(ns, hp, focusedId)
    /\ UNCHANGED <<viewVars, keyVars, interactionMode, selVars, edges, drawings,
                   textDrawings, clipboard, boxVars, panVars, storage, drag, mouseDown, pressedOn, strokeVars>>

(* Escape, app.js:352-358 *)
KeyEscape ==
    /\ focusedId' = Null
    /\ selectedIds' = {}
    /\ render(nodes, heap, Null)
    /\ UNCHANGED <<viewVars, keyVars, interactionMode, docVars, clipboard, ledgerVars,
                   boxVars, panVars, saveVars, storage, drag, mouseDown, pressedOn, strokeVars>>

(* Ctrl+Alt+C in normal mode, app.js:380-397 *)
KeyCopy ==
    /\ interactionMode = "normal" /\ ctrlDown
    /\ IF Cardinality(selectedIds) >= 1
       THEN clipboard' = [type |-> "multi",
                          nodes |-> Vals(SelectSeq(nodes, LAMBDA r : heap[r].id \in selectedIds), heap)]
       ELSE /\ focusedId # Null
            /\ \E i \in 1..Len(nodes) :
                 /\ heap[nodes[i]].id = focusedId
                 /\ \A j \in 1..(i - 1) : heap[nodes[j]].id # focusedId
                 /\ clipboard' = [type |-> "single", nodes |-> <<heap[nodes[i]]>>]
    /\ UNCHANGED <<viewVars, keyVars, interactionMode, selVars, docVars, ledgerVars,
                   boxVars, panVars, saveVars, storage, domVars, drag, mouseDown, pressedOn, strokeVars>>

(* clones that stay where the copied nodes were *)
ClonesInPlace(vals, ids) == [i \in 1..Len(vals) |-> [vals[i] EXCEPT !.id = ids[i]]]

(* the clones of the paste: JSON copy, new id, offset (40,40) *)
Clones(vals, ids) ==
    [i \in 1..Len(vals) |->
        [vals[i] EXCEPT !.id = ids[i], !.x = @ + PasteOffset, !.y = @ + PasteOffset]]

(* a paste that leaves its clones in the clipboard, so that the next paste  *)
(* starts from them                                                        *)
KeyPasteCascades ==
    /\ interactionMode = "normal" /\ ctrlDown
    /\ clipboard # NoClip
    /\ LET k == Len(clipboard.nodes) IN
       /\ CanAlloc(k) /\ CanMint(k)
       /\ LET refs   == AllocRefs(k, LiveRefs)
              clones == Clones(clipboard.nodes, FreshIds(k))
              ns     == nodes \o refs
              hp     == [r \in Refs |-> IF \E i \in 1..k : refs[i] = r
                                        THEN clones[CHOOSE i \in 1..k : refs[i] = r]
                                        ELSE heap[r]]
              fid    == IF k > 0 THEN clones[1].id ELSE focusedId
          IN  /\ \A i \in 1..k : InWorld(clones[i])
              /\ nodes' = ns
              /\ heap' = hp
              /\ focusedId' = fid
              /\ clipboard' = [clipboard EXCEPT !.nodes = clones]
              /\ selectedIds' = {clones[i].id : i \in 1..k}
              /\ RenderThenSave(ns, hp, fid)
    /\ UNCHANGED <<viewVars, keyVars, interactionMode, edges, drawings, textDrawings,
                   ledgerVars, boxVars, panVars, storage, drag, mouseDown, pressedOn, strokeVars>>

(* Ctrl+Alt+V in normal mode, app.js:399-430 *)
KeyPaste ==
    /\ interactionMode = "normal" /\ ctrlDown
    /\ clipboard # NoClip
    /\ LET k == Len(clipboard.nodes) IN
       /\ CanAlloc(k) /\ CanMint(k)
       /\ LET refs   == AllocRefs(k, LiveRefs)
              clones == Clones(clipboard.nodes, FreshIds(k))
              ns     == nodes \o refs
              hp     == [r \in Refs |-> IF \E i \in 1..k : refs[i] = r
                                        THEN clones[CHOOSE i \in 1..k : refs[i] = r]
                                        ELSE heap[r]]
              fid    == IF k > 0 THEN clones[1].id ELSE focusedId
          IN  /\ \A i \in 1..k : InWorld(clones[i])
              /\ nodes' = ns
              /\ heap' = hp
              /\ focusedId' = fid
              /\ selectedIds' = {clones[i].id : i \in 1..k}
              /\ RenderThenSave(ns, hp, fid)
    /\ UNCHANGED <<viewVars, keyVars, interactionMode, edges, drawings, textDrawings,
                   clipboard, ledgerVars, boxVars, panVars, storage, drag, mouseDown, pressedOn, strokeVars>>

----------------------------------------------------------------------------
(* Geometry: app.js:66-77, and the screen rectangle of a rendered node *)

rectIntersects(a, b) ==
    ~(a.right < b.left \/ a.left > b.right \/ a.bottom < b.top \/ a.top > b.bottom)

rectContains(outer, inner) ==
    /\ inner.left >= outer.left
    /\ inner.right <= outer.right
    /\ inner.top >= outer.top
    /\ inner.bottom <= outer.bottom

(* getBoundingClientRect of a node element under translate(pan) scale(zoom) *)
ScreenRect(rec) ==
    [left   |-> panX + (rec.x * zoom) \div 10,
     top    |-> panY + (rec.y * zoom) \div 10,
     right  |-> panX + ((rec.x + rec.w) * zoom) \div 10,
     bottom |-> panY + ((rec.y + rec.h) * zoom) \div 10]

Inside(pt, rc) == rc.left <= pt[1] /\ pt[1] <= rc.right /\ rc.top <= pt[2] /\ pt[2] <= rc.bottom

(* pointer positions the environment uses: where a button goes down or up, *)
(* and where a held pointer is moved to                                    *)
MousePts == {<<500, 400>>, <<900, 700>>}
MovePts  == {<<500, 400>>, <<540, 440>>}

(* state.nodes.find(nn => nn.id === id): the first node with that id, or Null *)
FindRef(ns, hp, id) ==
    LET hits == {i \in 1..Len(ns) : hp[ns[i]].id = id}
    IN  IF hits = {} THEN Null ELSE ns[CHOOSE i \in hits : \A j \in hits : i <= j]

----------------------------------------------------------------------------
(* viewport mousedown, app.js:476-611, reached by a press on the background *)
(* and by every node press that bubbles up to it                            *)

ViewportMouseDown(button, pt) ==
    /\ lastBox' = NoBox
    /\ IF button # 0 \/ interactionMode # "normal"
       THEN UNCHANGED <<panVars, selecting, selectStart>>
       ELSE IF shiftDown
       THEN /\ panning' = TRUE
            /\ panStart' = <<pt[1] - panX, pt[2] - panY>>
            /\ UNCHANGED <<selecting, selectStart>>
       ELSE IF ctrlDown
       THEN /\ selecting' = TRUE
            /\ selectStart' = pt
            /\ UNCHANGED panVars
       ELSE UNCHANGED <<panVars, selecting, selectStart>>

BackgroundMouseDown(button, pt) ==
    /\ ~mouseDown
    /\ \A r \in dom : ~Inside(pt, ScreenRect(heap[r]))
    /\ mouseDown' = TRUE /\ pressedOn' = Null
    /\ ViewportMouseDown(button, pt)
    /\ UNCHANGED <<viewVars, keyVars, interactionMode, selVars, docVars, clipboard,
                   ledgerVars, saveVars, storage, domVars, drag, strokeVars>>

(* node mousedown without the check that another node holds the focus *)
NodeMouseDownNoLock(r, button, pt) ==
    /\ ~mouseDown
    /\ r \in dom
    /\ Inside(pt, ScreenRect(heap[r]))
    /\ mouseDown' = TRUE /\ pressedOn' = IF button = 0 THEN r ELSE Null
    /\ LET id   == heap[r].id
           fid1 == IF Cardinality(selectedIds) > 1 /\ id \in selectedIds
                   THEN Null ELSE focusedId
       IN  IF interactionMode # "normal" \/ button # 0 \/ shiftDown
           THEN /\ focusedId' = fid1
                /\ UNCHANGED <<selectedIds, domVars, drag>>
           ELSE IF ctrlDown
           THEN /\ focusedId' = fid1
                /\ selectedIds' = IF id \in selectedIds THEN selectedIds \ {id}
                                  ELSE selectedIds \cup {id}
                /\ render(nodes, heap, fid1)
                /\ UNCHANGED drag
           ELSE LET fresh == id \notin selectedIds
                    sel   == IF fresh THEN {id} ELSE selectedIds
                    fid2  == IF fresh /\ fid1 = Null THEN id ELSE fid1
                    held  == {i \in sel : FindRef(nodes, heap, i) # Null}
                IN  /\ selectedIds' = sel
                    /\ focusedId' = fid2
                    /\ IF fresh THEN render(nodes, heap, fid2) ELSE UNCHANGED domVars
                    /\ drag' = IF fresh /\ RenderThrows(nodes, heap) THEN drag
                               ELSE [kind |-> "move", sx |-> pt[1], sy |-> pt[2],
                                     starts |-> [i \in held |->
                                         <<heap[FindRef(nodes, heap, i)].x,
                                           heap[FindRef(nodes, heap, i)].y>>]]
    /\ ViewportMouseDown(button, pt)
    /\ UNCHANGED <<viewVars, keyVars, interactionMode, docVars, clipboard, ledgerVars,
                   saveVars, storage, strokeVars>>

(* node mousedown, app.js:1087-1144, on the body of element r *)
NodeMouseDown(r, button, pt) ==
    /\ ~mouseDown
    /\ r \in dom
    /\ Inside(pt, ScreenRect(heap[r]))
    /\ mouseDown' = TRUE /\ pressedOn' = IF button = 0 THEN r ELSE Null
    /\ LET id   == heap[r].id
           fid1 == IF Cardinality(selectedIds) > 1 /\ id \in selectedIds
                   THEN Null ELSE focusedId
       IN  IF interactionMode # "normal" \/ button # 0 \/ shiftDown
              \/ (fid1 # Null /\ fid1 # id /\ ~ctrlDown)
           THEN /\ focusedId' = fid1
                /\ UNCHANGED <<selectedIds, domVars, drag>>
           ELSE IF ctrlDown
           THEN /\ focusedId' = fid1
                /\ selectedIds' = IF id \in selectedIds THEN selectedIds \ {id}
                                  ELSE selectedIds \cup {id}
                /\ render(nodes, heap, fid1)
                /\ UNCHANGED drag
           ELSE LET fresh == id \notin selectedIds
                    sel   == IF fresh THEN {id} ELSE selectedIds
                    fid2  == IF fresh /\ fid1 = Null THEN id ELSE fid1
                    held  == {i \in sel : FindRef(nodes, heap, i) # Null}
                IN  /\ selectedIds' = sel
                    /\ focusedId' = fid2
                    /\ IF fresh THEN render(nodes, heap, fid2) ELSE UNCHANGED domVars
                    /\ drag' = IF fresh /\ RenderThrows(nodes, heap) THEN drag
                               ELSE [kind |-> "move", sx |-> pt[1], sy |-> pt[2],
                                     starts |-> [i \in held |->
                                         <<heap[FindRef(nodes, heap, i)].x,
                                           heap[FindRef(nodes, heap, i)].y>>]]
    /\ ViewportMouseDown(button, pt)
    /\ UNCHANGED <<viewVars, keyVars, interactionMode, docVars, clipboard, ledgerVars,
                   saveVars, storage, strokeVars>>

(* window mousemove: the pan listener (app.js:613-619) and the move        *)
(* listener of a node drag (app.js:1123-1134)                              *)
MaxPan == 240

DragDelta(to, from) == ((to - from) * 10) \div zoom

MoveThrows == \E i \in selectedIds : FindRef(nodes, heap, i) # Null /\ i \notin DOMAIN drag.starts

PanMove(pt) ==
    /\ mouseDown
    /\ panning
    /\ LET px == pt[1] - panStart[1]
           py == pt[2] - panStart[2]
       IN  /\ px \in -MaxPan..MaxPan /\ py \in -MaxPan..MaxPan
           /\ panX' = px /\ panY' = py
    /\ scheduleSave
    /\ UNCHANGED <<zoom, keyVars, interactionMode, selVars, docVars, clipboard,
                   ledgerVars, boxVars, panVars, storage, domVars, drag, mouseDown, pressedOn, strokeVars>>

(* a move listener that carries only the node under the pointer *)
DragMovePressedOnly(pt) ==
    /\ mouseDown
    /\ drag.kind = "move"
    /\ ~MoveThrows
    /\ LET dx == DragDelta(pt[1], drag.sx)
           dy == DragDelta(pt[2], drag.sy)
           moved == {FindRef(nodes, heap, i) : i \in selectedIds} \cap {pressedOn}
           hp == [r \in Refs |->
                    IF r \in moved
                    THEN [heap[r] EXCEPT !.x = drag.starts[heap[r].id][1] + dx,
                                         !.y = drag.starts[heap[r].id][2] + dy]
                    ELSE heap[r]]
       IN  /\ \A r \in moved : InWorld(hp[r])
           /\ heap' = hp
           /\ render(nodes, hp, focusedId)
    /\ UNCHANGED <<viewVars, keyVars, interactionMode, selVars, nodes, edges,
                   drawings, textDrawings, clipboard, ledgerVars, boxVars, panVars,
                   saveVars, storage, drag, mouseDown, pressedOn, strokeVars>>

DragMove(pt) ==
    /\ mouseDown
    /\ drag.kind = "move"
    /\ ~MoveThrows
    /\ LET dx == DragDelta(pt[1], drag.sx)
           dy == DragDelta(pt[2], drag.sy)
           moved == {FindRef(nodes, heap, i) : i \in selectedIds} \ {Null}
           hp == [r \in Refs |->
                    IF r \in moved
                    THEN [heap[r] EXCEPT !.x = drag.starts[heap[r].id][1] + dx,
                                         !.y = drag.starts[heap[r].id][2] + dy]
                    ELSE heap[r]]
       IN  /\ \A r \in moved : InWorld(hp[r])
           /\ heap' = hp
           /\ render(nodes, hp, focusedId)
    /\ UNCHANGED <<viewVars, keyVars, interactionMode, selVars, nodes, edges,
                   drawings, textDrawings, clipboard, ledgerVars, boxVars, panVars,
                   saveVars, storage, drag, mouseDown, pressedOn, strokeVars>>

(* viewport wheel, app.js:441-465.  zoom is in tenths, a step is one tenth. *)
(* The code computes wx = (mx - panX) / zoom and panX = mx - wx * newZoom   *)
(* in floating point; the model computes them exactly and explores the      *)
(* steps whose new pan is a whole number of pixels.                         *)
MinZoom == 1
MaxZoom == 20
MaxWheelPan == 1000   \* how far a wheel step may carry the pan

(* a zoom step without its clamp *)
NewZoomUnclamped(z, delta) == z + delta

(* Math.min(2, Math.max(0.1, zoom + delta)) *)
NewZoom(z, delta) == Min(MaxZoom, Max(MinZoom, z + delta))

(* a zoom about the canvas origin: the pan stays *)
ZoomPanKeepsPan(m, pan, z, nz) == pan

(* mx - ((mx - panX) / zoom) * newZoom *)
ZoomPan(m, pan, z, nz) == m - ((m - pan) * nz) \div z

ZoomPanExact(m, pan, z, nz) == ((m - pan) * nz) % z = 0

(* `delta` is 1 for deltaY <= 0 (zoom in) and -1 for deltaY > 0 (zoom out) *)
Wheel(delta, pt) ==
    /\ shiftDown
    /\ LET nz == NewZoom(zoom, delta)
           px == ZoomPan(pt[1], panX, zoom, nz)
           py == ZoomPan(pt[2], panY, zoom, nz)
       IN  /\ ZoomPanExact(pt[1], panX, zoom, nz) /\ ZoomPanExact(pt[2], panY, zoom, nz)
           /\ px \in -MaxWheelPan..MaxWheelPan /\ py \in -MaxWheelPan..MaxWheelPan
           /\ zoom' = nz
           /\ panX' = px /\ panY' = py
    /\ scheduleSave
    /\ UNCHANGED <<keyVars, interactionMode, selVars, docVars, clipboard, ledgerVars,
                   boxVars, panVars, storage, domVars, drag, strokeVars, mouseDown, pressedOn>>

(* onmousedown of a resize handle of element r, app.js:1152-1186; the      *)
(* handles exist on the element drawn focused, and the press does not       *)
(* propagate to the node or the viewport                                    *)
Handles4 == {"tl", "tr", "bl", "br"}
MinW == 160
MinH == 120

ResizeMouseDown(r, pos, pt) ==
    /\ ~mouseDown
    /\ r \in domFocused
    /\ mouseDown' = TRUE /\ pressedOn' = Null
    /\ drag' = [kind |-> "resize", node |-> r, pos |-> pos, sx |-> pt[1], sy |-> pt[2],
                sw |-> heap[r].w, sh |-> heap[r].h, ox |-> heap[r].x, oy |-> heap[r].y]
    /\ UNCHANGED <<viewVars, keyVars, interactionMode, selVars, docVars, clipboard,
                   ledgerVars, boxVars, panVars, saveVars, storage, domVars, strokeVars>>

(* the node a resize move leaves: app.js:1161-1174 *)
Resized(rec, dr, dx, dy) ==
    LET right  == dr.pos \in {"tr", "br"}
        bottom == dr.pos \in {"bl", "br"}
        a == IF right  THEN [rec EXCEPT !.w = Max(MinW, dr.sw + dx)] ELSE rec
        b == IF bottom THEN [a EXCEPT !.h = Max(MinH, dr.sh + dy)] ELSE a
        c == IF ~right THEN [b EXCEPT !.w = Max(MinW, dr.sw - dx), !.x = dr.ox + dx] ELSE b
    IN  IF ~bottom THEN [c EXCEPT !.h = Max(MinH, dr.sh - dy), !.y = dr.oy + dy] ELSE c

(* the sizes the exploration keeps nodes in *)
InSize(rec) ==
    /\ rec.w - SpawnW(rec.type) \in (-MaxShift * PasteOffset)..(MaxShift * PasteOffset)
    /\ rec.h - SpawnH(rec.type) \in (-MaxShift * PasteOffset)..(MaxShift * PasteOffset)

(* the move listener of a resize *)
ResizeMove(pt) ==
    /\ mouseDown
    /\ drag.kind = "resize"
    /\ LET dx == DragDelta(pt[1], drag.sx)
           dy == DragDelta(pt[2], drag.sy)
           hp == [heap EXCEPT ![drag.node] = Resized(heap[drag.node], drag, dx, dy)]
       IN  /\ InWorld(hp[drag.node]) /\ InSize(hp[drag.node])
           /\ heap' = hp
           /\ render(nodes, hp, focusedId)
    /\ UNCHANGED <<viewVars, keyVars, interactionMode, selVars, nodes, edges,
                   drawings, textDrawings, clipboard, ledgerVars, boxVars, panVars,
                   saveVars, storage, drag, strokeVars, mouseDown, pressedOn>>

(* the selection a released selection box computes, app.js:544-597 *)
BoxRect(a, b) ==
    [left |-> Min(a[1], b[1]), top |-> Min(a[2], b[2]),
     right |-> Max(a[1], b[1]), bottom |-> Max(a[2], b[2])]

(* a zone counted as active as soon as the box touches it *)
ActiveZoneTouched(z, sel) == rectIntersects(z, sel)

ActiveZone(z, sel) ==
    LET intersects          == rectIntersects(z, sel)
        selectionInsideZone == rectContains(z, sel)
        zoneInsideSelection == rectContains(sel, z)
        partialEscape == intersects /\ ~selectionInsideZone /\ ~zoneInsideSelection
    IN  partialEscape \/ zoneInsideSelection

BoxSelection(sel) ==
    LET zones  == {r \in dom : IsZone(heap[r])}
        others == {r \in dom : ~IsZone(heap[r])}
        activeZones == {z \in zones : ActiveZone(ScreenRect(heap[z]), sel)}
    IN  {heap[z].id : z \in activeZones}
        \cup {heap[n].id : n \in {o \in others : \E z \in activeZones :
                                    rectContains(ScreenRect(heap[z]), ScreenRect(heap[o]))}}
        \cup {heap[n].id : n \in {o \in others : rectIntersects(ScreenRect(heap[o]), sel)}}

(* window mouseup whose selection box keeps what was selected before *)
MouseUpAddsToSelection(pt) ==
    /\ mouseDown
    /\ mouseDown' = FALSE /\ pressedOn' = Null
    /\ panning' = FALSE
    /\ scheduleSave
    /\ drag' = NoDrag
    /\ IF selecting
       THEN /\ selecting' = FALSE
            /\ selectStart' = <<0, 0>>
            /\ lastBox' = BoxRect(selectStart, pt)
            /\ selectedIds' = selectedIds \cup BoxSelection(BoxRect(selectStart, pt))
            /\ focusedId' = Null
            /\ render(nodes, heap, Null)
       ELSE /\ lastBox' = NoBox
            /\ UNCHANGED <<selecting, selectStart, selVars, domVars>>
    /\ panStart' = <<0, 0>>
    /\ activeDraw' = Null
    /\ UNCHANGED <<viewVars, keyVars, interactionMode, docVars, clipboard, ledgerVars,
                   storage, drawRedo>>

(* window mouseup: the global listener (app.js:621-627), then the `up` of   *)
(* the gesture in progress (app.js:522-605, 1136-1140).  selectStart and    *)
(* panStart are never read again before the next press overwrites them:    *)
(* the model forgets them here.                                            *)
MouseUp(pt) ==
    /\ mouseDown
    /\ mouseDown' = FALSE /\ pressedOn' = Null
    /\ panning' = FALSE
    /\ scheduleSave
    /\ drag' = NoDrag
    /\ IF selecting
       THEN /\ selecting' = FALSE
            /\ selectStart' = <<0, 0>>
            /\ lastBox' = BoxRect(selectStart, pt)
            /\ selectedIds' = BoxSelection(BoxRect(selectStart, pt))
            /\ focusedId' = Null
            /\ render(nodes, heap, Null)
       ELSE /\ lastBox' = NoBox
            /\ UNCHANGED <<selecting, selectStart, selVars, domVars>>
    /\ panStart' = <<0, 0>>
    /\ activeDraw' = Null
    /\ UNCHANGED <<viewVars, keyVars, interactionMode, docVars, clipboard, ledgerVars,
                   storage, drawRedo>>

(* dblclick on a node element, app.js:1000-1009 *)
NodeDblClick(r) ==
    /\ ~mouseDown
    /\ r \in dom
    /\ ~shiftDown
    /\ ~(focusedId # Null /\ focusedId # heap[r].id)
    /\ focusedId' = heap[r].id
    /\ selectedIds' = {heap[r].id}
    /\ render(nodes, heap, heap[r].id)
    /\ UNCHANGED <<viewVars, keyVars, interactionMode, docVars, clipboard, ledgerVars,
                   boxVars, panVars, saveVars, storage, drag, mouseDown, pressedOn, strokeVars>>

(* oninput of a field of element r: app.js:1076-1079 (every non-zone node), *)
(* app.js:1026-1040 (the title of a zone drawn focused)                     *)
FieldVals == {"", "a"}

FieldInput(r, v) ==
    /\ r \in dom
    /\ IsZone(heap[r]) => r \in domFocused
    /\ v # heap[r].data
    /\ heap' = [heap EXCEPT ![r].data = v]
    /\ scheduleSave
    /\ UNCHANGED <<viewVars, keyVars, interactionMode, selVars, nodes, edges, drawings,
                   textDrawings, clipboard, ledgerVars, boxVars, panVars, storage,
                   domVars, drag, mouseDown, pressedOn, strokeVars>>

(* a draw toggle that leaves text mode for normal mode *)
DrawToggleLeavesText ==
    /\ ~mouseDown
    /\ interactionMode' = IF interactionMode = "normal" THEN "draw" ELSE "normal"
    /\ UNCHANGED <<viewVars, keyVars, selVars, docVars, clipboard, ledgerVars, boxVars,
                   panVars, saveVars, storage, domVars, drag, mouseDown, pressedOn, strokeVars>>

(* draw / text toggles, app.js:1287-1305 *)
DrawToggle ==
    /\ ~mouseDown
    /\ interactionMode' = IF interactionMode = "draw" THEN "normal" ELSE "draw"
    /\ UNCHANGED <<viewVars, keyVars, selVars, docVars, clipboard, ledgerVars, boxVars,
                   panVars, saveVars, storage, domVars, drag, mouseDown, pressedOn, strokeVars>>

(* a text toggle that also drops focus and selection *)
TextToggleUnfocuses ==
    /\ ~mouseDown
    /\ interactionMode' = IF interactionMode = "text" THEN "normal" ELSE "text"
    /\ focusedId' = Null /\ selectedIds' = {}
    /\ UNCHANGED <<viewVars, keyVars, docVars, clipboard, ledgerVars, boxVars,
                   panVars, saveVars, storage, domVars, drag, mouseDown, pressedOn, strokeVars>>

TextToggle ==
    /\ ~mouseDown
    /\ interactionMode' = IF interactionMode = "text" THEN "normal" ELSE "text"
    /\ UNCHANGED <<viewVars, keyVars, selVars, docVars, clipboard, ledgerVars, boxVars,
                   panVars, saveVars, storage, domVars, drag, mouseDown, pressedOn, strokeVars>>

----------------------------------------------------------------------------
(* The draw layer, app.js:638-766 and 807-844.  A stroke is its id and its  *)
(* points (colour and size are fixed at their defaults); a text is its id,  *)
(* position and string.  A stroke object is told from the others by its id, *)
(* which crypto.randomUUID() makes new.  The text branch of the mousedown   *)
(* handler (app.js:657-737), which creates texts, is outside this model.    *)

MaxStrokes == 2     \* stroke ids in play
MaxPoints  == 2     \* points of one stroke
StrokeIds  == 1..MaxStrokes

(* screenToWorld(e), app.js:630-636, with the viewport at the page origin *)
screenToWorld(pt) == <<ToWorld(pt[1], panX, zoom), ToWorld(pt[2], panY, zoom)>>

StrokeIdsOf(ds) == {ds[i].id : i \in 1..Len(ds)}

(* activeDraw.points.push(p): the object is updated wherever it is held *)
PushPoint(ds, sid, p) ==
    [i \in 1..Len(ds) |-> IF ds[i].id = sid THEN [ds[i] EXCEPT !.points = Append(@, p)]
                          ELSE ds[i]]

(* drawLayer mousedown in draw mode, app.js:638-654; the press bubbles to   *)
(* the viewport handler                                                    *)
DrawMouseDown(button, pt) ==
    /\ ~mouseDown
    /\ interactionMode = "draw"
    /\ mouseDown' = TRUE /\ pressedOn' = Null
    /\ ViewportMouseDown(button, pt)
    /\ IF button # 0 THEN UNCHANGED <<drawings, strokeVars>>
       ELSE LET free == StrokeIds \ (StrokeIdsOf(drawings) \cup StrokeIdsOf(drawRedo))
                sid  == CHOOSE i \in free : \A j \in free : i <= j
            IN  /\ free # {}
                /\ activeDraw' = sid
                /\ drawings' = Append(drawings, [id |-> sid, points |-> <<screenToWorld(pt)>>])
                /\ drawRedo' = <<>>
    /\ UNCHANGED <<viewVars, keyVars, interactionMode, selVars, nodes, heap, edges,
                   textDrawings, clipboard, ledgerVars, saveVars, storage, domVars, drag>>

(* drawLayer mousemove, app.js:742-748 *)
DrawMouseMove(pt) ==
    /\ activeDraw # Null
    /\ interactionMode = "draw"
    /\ \A i \in 1..Len(drawings) : drawings[i].id = activeDraw => Len(drawings[i].points) < MaxPoints
    /\ \A i \in 1..Len(drawRedo) : drawRedo[i].id = activeDraw => Len(drawRedo[i].points) < MaxPoints
    /\ drawings' = PushPoint(drawings, activeDraw, screenToWorld(pt))
    /\ drawRedo' = PushPoint(drawRedo, activeDraw, screenToWorld(pt))
    /\ UNCHANGED <<viewVars, keyVars, interactionMode, selVars, nodes, heap, edges,
                   textDrawings, clipboard, ledgerVars, boxVars, panVars, saveVars, storage,
                   domVars, drag, activeDraw, mouseDown, pressedOn>>

(* the array operations of the stroke ledger, app.js:362-371, on the pair   *)
(* <<state.drawings, drawRedo>>                                            *)

(* an undo that takes the oldest stroke instead of the latest *)
StrokeUndoOldest(ds, rs) ==
    IF ds = <<>> THEN <<ds, rs>>
    ELSE <<Tail(ds), Append(rs, Head(ds))>>

(* const last = state.drawings.pop(); if (last) drawRedo.push(last) *)
StrokeUndo(ds, rs) ==
    IF ds = <<>> THEN <<ds, rs>>
    ELSE <<SubSeq(ds, 1, Len(ds) - 1), Append(rs, ds[Len(ds)])>>

(* const redo = drawRedo.pop(); if (redo) state.drawings.push(redo) *)
StrokeRedo(ds, rs) ==
    IF rs = <<>> THEN <<ds, rs>>
    ELSE <<Append(ds, rs[Len(rs)]), SubSeq(rs, 1, Len(rs) - 1)>>

(* Ctrl+Z in draw mode, app.js:360-367 *)
DrawUndo ==
    /\ interactionMode = "draw" /\ ctrlDown
    /\ drawings' = StrokeUndo(drawings, drawRedo)[1]
    /\ drawRedo' = StrokeUndo(drawings, drawRedo)[2]
    /\ scheduleSave
    /\ UNCHANGED <<viewVars, keyVars, interactionMode, selVars, nodes, heap, edges,
                   textDrawings, clipboard, ledgerVars, boxVars, panVars, storage,
                   domVars, drag, activeDraw, mouseDown, pressedOn>>

(* Ctrl+Y in draw mode, app.js:369-375 *)
DrawRedo ==
    /\ interactionMode = "draw" /\ ctrlDown
    /\ drawings' = StrokeRedo(drawings, drawRedo)[1]
    /\ drawRedo' = StrokeRedo(drawings, drawRedo)[2]
    /\ scheduleSave
    /\ UNCHANGED <<viewVars, keyVars, interactionMode, selVars, nodes, heap, edges,
                   textDrawings, clipboard, ledgerVars, boxVars, panVars, storage,
                   domVars, drag, activeDraw, mouseDown, pressedOn>>

(* keydown of z with Ctrl held, app.js:329-367: the node branch in normal  *)
(* mode, the stroke branch in draw mode; in text mode, and in normal mode   *)
(* with an empty node ledger, the handler changes nothing                   *)
KeyZ ==
    \/ NodeUndo
    \/ DrawUndo
    \/ /\ ctrlDown
       /\ \/ interactionMode = "text"
          \/ interactionMode = "normal" /\ nodeUndo = <<>>
       /\ UNCHANGED vars

(* keydown of y with Ctrl held, app.js:340-375 *)
KeyY ==
    \/ NodeRedo
    \/ DrawRedo
    \/ /\ ctrlDown
       /\ \/ interactionMode = "text"
          \/ interactionMode = "normal" /\ nodeRedo = <<>>
       /\ UNCHANGED vars

(* d.points.some(p => Math.hypot(p.x - x, p.y - y) < 8) *)
HitRadius == 8
Hits(d, w) ==
    \E i \in 1..Len(d.points) :
        (d.points[i][1] - w[1]) * (d.points[i][1] - w[1])
        + (d.points[i][2] - w[2]) * (d.points[i][2] - w[2]) < HitRadius * HitRadius

(* the index of the first drawing the point hits, or 0 *)
HitIndex(ds, w) ==
    LET hit == {i \in 1..Len(ds) : Hits(ds[i], w)}
    IN  IF hit = {} THEN 0 ELSE CHOOSE i \in hit : \A j \in hit : i <= j

(* state.drawings.filter(d => d !== hit) *)
WithoutStroke(ds, sid) == SelectSeq(ds, LAMBDA d : d.id # sid)

(* a context menu that deletes the drawing whatever confirm() answers *)
DrawContextMenuNoConfirm(pt, ok) ==
    /\ interactionMode = "draw"
    /\ LET h == HitIndex(drawings, screenToWorld(pt))
       IN  /\ h # 0
           /\ drawings' = WithoutStroke(drawings, drawings[h].id)
           /\ scheduleSave
           /\ UNCHANGED <<viewVars, keyVars, interactionMode, selVars, nodes, heap,
                          edges, textDrawings, clipboard, ledgerVars, boxVars, panVars,
                          storage, domVars, drag, strokeVars, mouseDown, pressedOn>>

(* drawLayer contextmenu, app.js:750-766; `ok` is the answer to confirm()   *)
DrawContextMenu(pt, ok) ==
    /\ interactionMode = "draw"
    /\ LET h == HitIndex(drawings, screenToWorld(pt))
       IN  IF h = 0 \/ ~ok THEN UNCHANGED vars
           ELSE /\ drawings' = WithoutStroke(drawings, drawings[h].id)
                /\ scheduleSave
                /\ UNCHANGED <<viewVars, keyVars, interactionMode, selVars, nodes, heap,
                               edges, textDrawings, clipboard, ledgerVars, boxVars, panVars,
                               storage, domVars, drag, strokeVars, mouseDown, pressedOn>>

(* state.textDrawings.splice(idx, 1) with idx = findIndex(x => x.id === id) *)
SpliceText(ts, id) ==
    LET found == {i \in 1..Len(ts) : ts[i].id = id}
        idx   == IF found = {} THEN 0 ELSE CHOOSE i \in found : \A j \in found : i <= j
    IN  IF idx = 0 THEN ts ELSE SubSeq(ts, 1, idx - 1) \o SubSeq(ts, idx + 1, Len(ts))

(* oncontextmenu of the overlay of text i, app.js:827-840 *)
TextContextMenu(i, ok) ==
    /\ i \in 1..Len(textDrawings)
    /\ interactionMode = "text"
    /\ IF ~ok THEN UNCHANGED vars
       ELSE /\ textDrawings' = SpliceText(textDrawings, textDrawings[i].id)
            /\ scheduleSave
            /\ UNCHANGED <<viewVars, keyVars, interactionMode, selVars, nodes, heap,
                           edges, drawings, clipboard, ledgerVars, boxVars, panVars,
                           storage, domVars, drag, strokeVars, mouseDown, pressedOn>>

(* clear-all button, app.js:1201-1213; `ok` is the answer to confirm() *)
ClearAll(ok) ==
    /\ ~mouseDown
    /\ IF ~ok THEN UNCHANGED vars
       ELSE /\ nodes' = <<>>
            /\ edges' = <<>>
            /\ drawings' = <<>>
            /\ textDrawings' = <<>>
            /\ heap' = Collect(heap, Reachable(<<>>, nodeUndo, nodeRedo, drag))
            /\ selectedIds' = {}
            /\ focusedId' = Null
            /\ storage' = NoBlob
            /\ render(<<>>, heap, Null)
            /\ UNCHANGED <<viewVars, keyVars, interactionMode, clipboard, ledgerVars,
                           boxVars, panVars, saveVars, drag, mouseDown, pressedOn, strokeVars>>

(* spawn buttons, app.js:1244-1281 *)
SpawnClick(type) == ~mouseDown /\ spawn(type)

----------------------------------------------------------------------------
(* importState(file), app.js:949-969: the FileReader's onload callback.    *)
(* A file is unparseable text, the JSON text "null", or a JSON document.   *)

FileNode(id, type) ==
    [id |-> id, type |-> type, x |-> HomeX(type), y |-> HomeY(type),
     w |-> SpawnW(type), h |-> SpawnH(type), data |-> IF type = "zone" THEN "ZONE" ELSE ""]

Doc(ns, es, ds, ts) ==
    [kind |-> "doc", nodes |-> ns, edges |-> es, drawings |-> ds, textDrawings |-> ts]

Unparseable == [kind |-> "garbage", nodes |-> <<>>, edges |-> <<>>, drawings |-> <<>>,
                textDrawings |-> <<>>]
JsonNull    == [kind |-> "null", nodes |-> <<>>, edges |-> <<>>, drawings |-> <<>>,
                textDrawings |-> <<>>]

SketchFile ==
    Doc(<<FileNode(2, "note")>>, <<"e1">>,
        <<[id |-> 1, points |-> <<<<0, 0>>>>]>>,
        <<[id |-> 1, x |-> 0, y |-> 0, text |-> "t"]>>)

ImportFiles ==
    { Unparseable, JsonNull,
      Doc(<<>>, <<>>, <<>>, <<>>),
      Doc(<<FileNode(1, "note")>>, <<>>, <<>>, <<>>),
      Doc(<<FileNode(1, "zone"), FileNode(2, "bogus")>>, <<>>, <<>>, <<>>),
      SketchFile }

(* JSON.parse(r.result) throws, or parsed is null and parsed.nodes throws *)
ParseThrows(file) == file.kind \in {"garbage", "null"}

importState(file) ==
    IF ParseThrows(file) THEN UNCHANGED vars
    ELSE LET k    == Len(file.nodes)
             kept == Reachable(<<>>, nodeUndo, nodeRedo, drag)
             refs == AllocRefs(k, kept)
             ns   == refs
             hp   == [r \in Refs |-> IF \E i \in 1..k : refs[i] = r
                                     THEN file.nodes[CHOOSE i \in 1..k : refs[i] = r]
                                     ELSE IF r \in kept THEN heap[r] ELSE FreeCell]
         IN  /\ Cardinality(Refs \ kept) >= k
             /\ nodes' = ns
             /\ heap' = hp
             /\ edges' = file.edges
             /\ drawings' = file.drawings
             /\ textDrawings' = file.textDrawings
             /\ focusedId' = Null
             /\ selectedIds' = {}
             /\ RenderThenSave(ns, hp, Null)
             /\ UNCHANGED <<viewVars, keyVars, interactionMode, clipboard, ledgerVars,
                            boxVars, panVars, storage, drag, mouseDown, pressedOn, strokeVars>>

(* alert("Invalid state file") is reached: the try block threw *)
ImportAlerts(file) ==
    IF ParseThrows(file) THEN TRUE
    ELSE \E i \in 1..Len(file.nodes) : ~Renderable(file.nodes[i])

ImportChange(file) == ~mouseDown /\ importState(file)

(* an export that writes the nodes and edges only *)
exportStateNodesOnly == Doc(Vals(nodes, heap), edges, <<>>, <<>>)

(* exportState(), app.js:938-947: the downloaded file is JSON.stringify of  *)
(* state, in which every node object is written out by value               *)
exportState == Doc(Vals(nodes, heap), edges, drawings, textDrawings)

(* the user picks the file just exported in the import dialog *)
ImportExported == ImportChange(exportState)

----------------------------------------------------------------------------
(* The timeout callback of scheduleSave, app.js:48-63; `fails` is whether   *)
(* localStorage.setItem throws                                              *)

Payload ==
    [nodes |-> Vals(nodes, heap), edges |-> edges, drawings |-> drawings,
     textDrawings |-> textDrawings,
     meta |-> [zoom |-> zoom, panX |-> panX, panY |-> panY]]

(* loadFromStorage, app.js:79-98: the document a reload would bring back *)
InitialDoc ==
    [nodes |-> <<>>, edges |-> <<>>, drawings |-> <<>>, textDrawings |-> <<>>,
     meta |-> [zoom |-> 10, panX |-> 0, panY |-> 0]]

loadFromStorage == IF storage = NoBlob THEN InitialDoc ELSE storage

(* a callback that leaves isDirty set when the write failed *)
SaveCallbackStaysDirty(fails) ==
    /\ storage' = IF fails THEN storage ELSE Payload
    /\ isDirty' = fails
    /\ saveTimer' = Null

SaveCallback(fails) ==
    /\ storage' = IF fails THEN storage ELSE Payload
    /\ isDirty' = FALSE
    /\ saveTimer' = Null

TimerFire(fails) ==
    /\ \E t \in timers :
          /\ t.left = 0
          /\ timers' = timers \ {t}
    /\ SaveCallback(fails)
    /\ writes' = writes + 1
    /\ lastWrite' = IF fails THEN "failed" ELSE "ok"
    /\ UNCHANGED <<viewVars, keyVars, interactionMode, selVars, docVars, clipboard,
                   ledgerVars, boxVars, panVars, sinceCall, burst, domVars, drag, mouseDown,
                   pressedOn, strokeVars>>

(* time passes; a due timeout runs before time moves on *)
TickSteps == {100, 150}

Tick(d) ==
    /\ timers # {}
    /\ \A t \in timers : d <= t.left
    /\ timers' = {[t EXCEPT !.left = @ - d] : t \in timers}
    /\ sinceCall' = sinceCall + d
    /\ UNCHANGED <<viewVars, keyVars, interactionMode, selVars, docVars, clipboard,
                   ledgerVars, boxVars, panVars, isDirty, saveTimer, writes, lastWrite, burst,
                   storage, domVars, drag, mouseDown, pressedOn, strokeVars>>

----------------------------------------------------------------------------
(* A reload of the page: every variable of the script starts over, pending  *)
(* timeouts are gone, and window.onload (app.js:1380-1384) loads the        *)
(* persisted blob and renders.                                              *)
Reload ==
    LET doc  == loadFromStorage
        k    == Len(doc.nodes)
        refs == AllocRefs(k, {})
        hp   == [r \in Refs |-> IF \E i \in 1..k : refs[i] = r
                                THEN doc.nodes[CHOOSE i \in 1..k : refs[i] = r]
                                ELSE FreeCell]
    IN  /\ zoom' = doc.meta.zoom /\ panX' = doc.meta.panX /\ panY' = doc.meta.panY
        /\ shiftDown' = FALSE /\ ctrlDown' = FALSE
        /\ interactionMode' = "normal"
        /\ selectedIds' = {} /\ focusedId' = Null
        /\ nodes' = refs /\ heap' = hp
        /\ edges' = doc.edges /\ drawings' = doc.drawings /\ textDrawings' = doc.textDrawings
        /\ clipboard' = NoClip
        /\ nodeUndo' = <<>> /\ nodeRedo' = <<>>
        /\ selecting' = FALSE /\ selectStart' = <<0, 0>> /\ lastBox' = NoBox
        /\ panning' = FALSE /\ panStart' = <<0, 0>>
        /\ isDirty' = FALSE /\ saveTimer' = Null /\ timers' = {}
        /\ sinceCall' = 0 /\ writes' = 0 /\ lastWrite' = "none" /\ burst' = 0
        /\ render(refs, hp, Null)
        /\ drag' = NoDrag
        /\ drawRedo' = <<>> /\ activeDraw' = Null
        /\ mouseDown' = FALSE /\ pressedOn' = Null
        /\ UNCHANGED storage

Buttons == {0, 2}

(* Nodes, focus, selection, ledger, clipboard and import: presses and keys, *)
(* with the pointer held still and no field edited                          *)
NextUI ==
    \/ \E type \in PrimitiveTypes : SpawnClick(type)
    \/ KeyDownControl \/ KeyUpControl
    \/ \E ok \in BOOLEAN : KeyDelete(ok)
    \/ NodeUndo
    \/ NodeRedo
    \/ KeyEscape
    \/ \E b \in Buttons, pt \in MousePts : BackgroundMouseDown(b, pt)
    \/ \E r \in Refs, b \in Buttons, pt \in MousePts : NodeMouseDown(r, b, pt)
    \/ \E pt \in MousePts : MouseUp(pt)
    \/ \E r \in Refs : NodeDblClick(r)
    \/ DrawToggle
    \/ TextToggle
    \/ \E ok \in BOOLEAN : ClearAll(ok)
    \/ \E file \in ImportFiles : ImportChange(file)

Spec == Init /\ [][NextUI]_vars

(* Pointer gestures on nodes in normal mode *)
NextDrag ==
    \/ \E type \in PrimitiveTypes : SpawnClick(type)
    \/ KeyDownControl \/ KeyUpControl
    \/ KeyEscape
    \/ \E r \in Refs, b \in Buttons, pt \in MousePts : NodeMouseDown(r, b, pt)
    \/ \E pt \in MovePts : DragMove(pt)
    \/ \E pt \in MousePts : MouseUp(pt)
    \/ \E r \in Refs : NodeDblClick(r)

SpecDrag == Init /\ [][NextDrag]_vars

(* Autosave: mutations of a small document, the clock and the timeout *)
NextSave ==
    \/ SpawnClick("note")
    \/ \E r \in Refs, pt \in MousePts : NodeMouseDown(r, 0, pt)
    \/ \E pt \in MovePts : DragMove(pt)
    \/ \E pt \in MousePts : MouseUp(pt)
    \/ ClearAll(TRUE)
    \/ \E d \in TickSteps : Tick(d)
    \/ \E fails \in BOOLEAN : TimerFire(fails)

SpecSave == Init /\ [][NextSave]_vars

(* Clipboard: copying a selection, pasting it, and dragging what was pasted *)
NextClip ==
    \/ SpawnClick("note")
    \/ KeyDownControl \/ KeyUpControl
    \/ KeyCopy
    \/ KeyPaste
    \/ ClearAll(TRUE)
    \/ \E r \in Refs, pt \in MousePts : NodeMouseDown(r, 0, pt)
    \/ \E pt \in MovePts : DragMove(pt)
    \/ \E pt \in MousePts : MouseUp(pt)

SpecClip == Init /\ [][NextClip]_vars

(* Editing: typing into the fields of nodes, focused or not *)
NextEdit ==
    \/ \E type \in PrimitiveTypes : SpawnClick(type)
    \/ \E r \in Refs : NodeDblClick(r)
    \/ KeyEscape
    \/ KeyDelete(TRUE)
    \/ \E r \in Refs, v \in FieldVals : FieldInput(r, v)

SpecEdit == Init /\ [][NextEdit]_vars

(* Selection boxes over a zone and the notes inside it *)
BoxPts == {<<100, 100>>, <<500, 400>>, <<700, 550>>, <<900, 700>>}

NextBox ==
    \/ \E type \in PrimitiveTypes : SpawnClick(type)
    \/ KeyDownControl \/ KeyUpControl
    \/ KeyEscape
    \/ \E r \in Refs : NodeDblClick(r)
    \/ \E pt \in BoxPts : BackgroundMouseDown(0, pt)
    \/ \E r \in Refs, pt \in BoxPts : NodeMouseDown(r, 0, pt)
    \/ \E pt \in BoxPts : MouseUp(pt)

SpecBox == Init /\ [][NextBox]_vars

(* Modes: the two toggles among the operations on nodes, clipboard and ledgers *)
NextMode ==
    \/ SpawnClick("note")
    \/ KeyDownControl \/ KeyUpControl
    \/ KeyCopy
    \/ KeyDelete(TRUE)
    \/ NodeUndo
    \/ KeyEscape
    \/ \E r \in Refs : NodeDblClick(r)
    \/ ImportChange(SketchFile)
    \/ DrawToggle
    \/ TextToggle

SpecMode == Init /\ [][NextMode]_vars

(* Ledger: deleting selections and walking the undo / redo stacks *)
NextLedger ==
    \/ SpawnClick("note")
    \/ KeyDownControl \/ KeyUpControl
    \/ KeyDelete(TRUE)
    \/ NodeUndo
    \/ NodeRedo
    \/ \E r \in Refs : NodeMouseDown(r, 0, <<500, 400>>)
    \/ MouseUp(<<500, 400>>)

SpecLedger == Init /\ [][NextLedger]_vars

(* Confirmations: the four destructive actions and both answers to confirm() *)
MenuPts == {<<0, 0>>, <<500, 400>>}

NextConfirm ==
    \/ SpawnClick("note")
    \/ \E r \in Refs : NodeDblClick(r)
    \/ ImportChange(SketchFile)
    \/ DrawToggle
    \/ TextToggle
    \/ \E ok \in BOOLEAN : KeyDelete(ok)
    \/ \E ok \in BOOLEAN : ClearAll(ok)
    \/ \E pt \in MenuPts, ok \in BOOLEAN : DrawContextMenu(pt, ok)
    \/ \E i \in 1..MaxStrokes, ok \in BOOLEAN : TextContextMenu(i, ok)
    \/ Tick(Delay)
    \/ TimerFire(FALSE)

SpecConfirm == Init /\ [][NextConfirm]_vars

(* Resizing: the four handles of the focused node *)
ResizePts == {<<460, 360>>, <<500, 400>>, <<540, 440>>, <<580, 480>>}

NextResize ==
    \/ SpawnClick("note")
    \/ \E r \in Refs, pos \in Handles4 : ResizeMouseDown(r, pos, <<500, 400>>)
    \/ \E pt \in ResizePts : ResizeMove(pt)
    \/ MouseUp(<<500, 400>>)

SpecResize == Init /\ [][NextResize]_vars

(* Copies: what a copy holds while its originals are dragged (plain        *)
(* presses), edited and deleted                                             *)
NextCopy ==
    \/ SpawnClick("note")
    \/ KeyDownControl \/ KeyUpControl
    \/ KeyCopy
    \/ KeyPaste
    \/ KeyDelete(TRUE)
    \/ \E r \in Refs : FieldInput(r, "a")
    \/ \E r \in Refs : (~ctrlDown /\ NodeMouseDown(r, 0, <<500, 400>>))
    \/ DragMove(<<540, 440>>)
    \/ MouseUp(<<500, 400>>)

SpecCopy == Init /\ [][NextCopy]_vars

(* Copies of a selection whose nodes a redo has taken off the canvas *)
NextStale ==
    \/ SpawnClick("note")
    \/ KeyDownControl \/ KeyUpControl
    \/ KeyDelete(TRUE)
    \/ NodeUndo
    \/ NodeRedo
    \/ \E r \in Refs : NodeMouseDown(r, 0, <<500, 400>>)
    \/ MouseUp(<<500, 400>>)
    \/ KeyCopy
    \/ KeyPaste

SpecStale == Init /\ [][NextStale]_vars

(* Files: documents built by spawning, editing, drawing and importing, and  *)
(* read back from their own export                                          *)
NextRound ==
    \/ \E type \in PrimitiveTypes : SpawnClick(type)
    \/ \E r \in Refs : FieldInput(r, "a")
    \/ \E file \in ImportFiles : ImportChange(file)
    \/ ImportExported
    \/ DrawToggle
    \/ DrawMouseDown(0, <<500, 400>>)
    \/ DrawMouseMove(<<540, 440>>)
    \/ MouseUp(<<500, 400>>)

SpecRound == Init /\ [][NextRound]_vars

(* Zoom: wheel steps at the centre of the viewport, autosave and reload *)
WheelSteps == {-1, 1}

NextZoom ==
    \/ KeyDownShift \/ KeyUpShift
    \/ \E delta \in WheelSteps : Wheel(delta, <<500, 400>>)
    \/ Tick(Delay)
    \/ TimerFire(FALSE)
    \/ Reload

SpecZoom == Init /\ [][NextZoom]_vars

(* Group moves in a session that starts from a persisted view: the blob   *)
(* of an empty canvas saved at zoom 1.0, or at zoom 2.0 after wheel steps   *)
(* at the centre of the viewport (loadFromStorage, app.js:79-98)            *)
StoredZooms == {10, MaxZoom}

StoredView(z) ==
    [InitialDoc EXCEPT !.meta = [zoom |-> z,
                                 panX |-> ZoomPan(ViewCx, 0, 10, z),
                                 panY |-> ZoomPan(ViewCy, 0, 10, z)]]

InitStored ==
    \E z \in StoredZooms :
       /\ storage = StoredView(z)
       /\ zoom = loadFromStorage.meta.zoom
       /\ panX = loadFromStorage.meta.panX /\ panY = loadFromStorage.meta.panY
       /\ shiftDown = FALSE /\ ctrlDown = FALSE
       /\ interactionMode = "normal"
       /\ selectedIds = {} /\ focusedId = Null
       /\ nodes = <<>> /\ heap = [r \in Refs |-> FreeCell]
       /\ edges = <<>> /\ drawings = <<>> /\ textDrawings = <<>>
       /\ clipboard = NoClip
       /\ nodeUndo = <<>> /\ nodeRedo = <<>>
       /\ selecting = FALSE /\ selectStart = <<0, 0>> /\ lastBox = NoBox
       /\ panning = FALSE /\ panStart = <<0, 0>>
       /\ isDirty = FALSE /\ saveTimer = Null /\ timers = {}
       /\ sinceCall = 0 /\ writes = 0 /\ lastWrite = "none" /\ burst = 0
       /\ dom = {} /\ domFocused = {}
       /\ drag = NoDrag
       /\ drawRedo = <<>> /\ activeDraw = Null
       /\ mouseDown = FALSE /\ pressedOn = Null

(* where the held pointer is moved to: 80 pixels from the press *)
GroupPts == {<<500, 400>>, <<580, 480>>}

NextGroup ==
    \/ SpawnClick("note")
    \/ KeyDownControl \/ KeyUpControl
    \/ KeyCopy
    \/ KeyPaste
    \/ ClearAll(TRUE)
    \/ \E r \in Refs, pt \in MousePts : NodeMouseDown(r, 0, pt)
    \/ \E pt \in GroupPts : DragMove(pt)
    \/ \E pt \in MousePts : MouseUp(pt)

SpecGroup == InitStored /\ [][NextGroup]_vars

(* Sketching: strokes drawn, undone and redone beside a few notes *)
NextSketch ==
    \/ SpawnClick("note")
    \/ KeyDownControl \/ KeyUpControl
    \/ KeyDelete(TRUE)
    \/ DrawToggle
    \/ DrawMouseDown(0, <<500, 400>>)
    \/ DrawMouseMove(<<540, 440>>)
    \/ MouseUp(<<500, 400>>)
    \/ DrawUndo
    \/ DrawRedo

SpecSketch == Init /\ [][NextSketch]_vars

(* Keys across modes: Delete, Ctrl+Z and Ctrl+Y in normal, draw and text  *)
(* mode, with notes and strokes to act on                                   *)
NextKeys ==
    \/ SpawnClick("note")
    \/ KeyDownControl \/ KeyUpControl
    \/ KeyDelete(TRUE)
    \/ DrawToggle
    \/ TextToggle
    \/ DrawMouseDown(0, <<500, 400>>)
    \/ MouseUp(<<500, 400>>)
    \/ KeyZ
    \/ KeyY

SpecKeys == Init /\ [][NextKeys]_vars

(* Wheel: zoom steps at two pointer positions *)
WheelPts == {<<500, 400>>, <<900, 700>>}

NextWheel ==
    \/ KeyDownShift \/ KeyUpShift
    \/ \E delta \in WheelSteps, pt \in WheelPts : Wheel(delta, pt)

SpecWheel == Init /\ [][NextWheel]_vars

-----------------------------------------------------------------------------
(* Properties of focus, selection and node identity                         *)

NodeIds == IdsOf(nodes, heap)

(* C1: focusedId is null or the id of a node in state.nodes, and every id   *)
(* in selectedIds is the id of a node in state.nodes, whatever sequence of  *)
(* user actions led here.                                                   *)
FocusAndSelectionReferToNodes ==
    /\ focusedId \in {Null} \cup NodeIds
    /\ selectedIds \subseteq NodeIds

(* C2: no two entries of state.nodes carry the same id.                     *)
NodeIdsUnique ==
    \A i, j \in 1..Len(nodes) : heap[nodes[i]].id = heap[nodes[j]].id => i = j

-----------------------------------------------------------------------------
(* Properties of autosave and import                                        *)

(* C3: when the write to browser storage throws, isDirty remains true after *)
(* the save callback: from a failed write until the next write, the dirty   *)
(* flag is set.                                                             *)
DirtyAfterFailedWrite == lastWrite = "failed" => isDirty

(* C4: an import whose processing throws and shows the "Invalid state file" *)
(* alert leaves state.nodes, state.edges, state.drawings,                   *)
(* state.textDrawings, focusedId and selectedIds as they were.              *)
ImportAlertLeavesState ==
    [][\A file \in ImportFiles :
          (ImportChange(file) /\ ImportAlerts(file)) =>
              /\ Vals(nodes, heap)' = Vals(nodes, heap)
              /\ UNCHANGED <<edges, drawings, textDrawings, focusedId, selectedIds>>]_vars

(* C5: whenever isDirty is false, what is persisted in browser storage      *)
(* brings back the in-memory document and view state.                       *)
NoSilentStateLoss == ~isDirty => loadFromStorage = Payload

(* C6: a burst of scheduleSave calls, each less than 300 time units after  *)
(* the one before, results in exactly one write, 300 time units after the   *)
(* last call: since the last call there has been at most one write; while   *)
(* the document is unsaved exactly one timeout is pending and it is due 300 *)
(* units after the last call; a write happens only 300 units after the last *)
(* call, and what it stores is the state at the time of the write.          *)
DebounceCoalesces ==
    /\ [](/\ writes <= 1
          /\ isDirty => /\ writes = 0
                        /\ timers = {[h |-> saveTimer, left |-> Delay - sinceCall]})
    /\ [][\A fails \in BOOLEAN :
             TimerFire(fails) => /\ sinceCall = Delay
                                 /\ writes' = 1
                                 /\ ~fails => storage' = Payload']_vars

(* two calls less than 300 apart have been followed by their one write,     *)
(* which stored the document as it then was                                 *)
BurstWritten ==
    /\ burst = MaxBurst
    /\ writes = 1 /\ lastWrite = "ok"
    /\ sinceCall = Delay
    /\ storage = Payload /\ Len(nodes) > 0

-----------------------------------------------------------------------------
(* Properties of the focus lock                                             *)

(* C7: with node A focused, B another node outside the selection and       *)
(* neither Ctrl nor Shift held, a press on B followed by mouse movement and *)
(* release changes no node's position, leaves selectedIds unchanged and     *)
(* leaves focus on A: the press changes none of them and installs no move,  *)
(* pan or selection-box listener, and a movement or release with no such    *)
(* listener changes none of them either.                                    *)
FocusLockOnMove ==
    [][/\ \A r \in Refs, pt \in MousePts :
            (/\ focusedId # Null /\ heap[r].id # focusedId
             /\ heap[r].id \notin selectedIds
             /\ ~ctrlDown /\ ~shiftDown
             /\ NodeMouseDown(r, 0, pt))
            => /\ UNCHANGED <<nodes, heap, selectedIds, focusedId>>
               /\ drag' = NoDrag /\ ~selecting' /\ ~panning'
       /\ (/\ mouseDown /\ drag = NoDrag /\ ~selecting /\ ~panning
           /\ \/ \E pt \in MovePts : DragMove(pt)
              \/ \E pt \in MousePts : MouseUp(pt))
            => UNCHANGED <<nodes, heap, selectedIds, focusedId>>]_vars

(* the left button is held on an unselected node while another node has    *)
(* the focus, no modifier is down and no gesture listener was installed     *)
PressedOnLockedNode ==
    /\ mouseDown /\ pressedOn # Null
    /\ interactionMode = "normal"
    /\ focusedId # Null /\ focusedId \in NodeIds
    /\ heap[pressedOn].id # focusedId
    /\ heap[pressedOn].id \notin selectedIds
    /\ ~ctrlDown /\ ~shiftDown
    /\ drag = NoDrag /\ ~selecting /\ ~panning

(* C8: with node A focused and neither Ctrl nor Shift held, a drag that     *)
(* starts on any other node B, selected or not, changes no node's position  *)
(* and leaves focus on A: the press keeps the focus and installs no move    *)
(* listener.                                                                *)
HardLockAllOthers ==
    [][\A r \in Refs, pt \in MousePts :
          (/\ focusedId # Null /\ heap[r].id # focusedId
           /\ ~ctrlDown /\ ~shiftDown
           /\ NodeMouseDown(r, 0, pt))
          => /\ focusedId' = focusedId
             /\ drag' = NoDrag
             /\ heap' = heap]_vars

(* C9: while node A is focused, input into a field of another node B        *)
(* leaves B's data unchanged.                                               *)
FocusLockOnEdit ==
    [][\A r \in Refs, v \in FieldVals :
          (focusedId # Null /\ heap[r].id # focusedId /\ FieldInput(r, v))
          => heap'[r].data = heap[r].data]_vars

(* C10: focusedId goes from a node id to null only by the Escape key, which *)
(* also empties the selection.                                              *)
EscapeSoleUnfocus ==
    [][(focusedId # Null /\ focusedId' = Null) => (KeyEscape /\ selectedIds' = {})]_vars

-----------------------------------------------------------------------------
(* Properties of focus acquisition and selection                            *)

(* C11: focusedId becomes node n only through a double-click on n; no       *)
(* other operation (spawn, paste, a press on an unselected node) assigns    *)
(* focus.                                                                   *)
FocusOnlyByDoubleClick ==
    [][\A id \in Ids :
          (focusedId' = id /\ focusedId # id)
          => \E r \in Refs : heap[r].id = id /\ NodeDblClick(r)]_vars

(* C12: in normal mode a Ctrl+left-click on node n toggles n's membership   *)
(* in selectedIds, changes no other member and leaves focusedId unchanged,  *)
(* also when n belongs to a selection of more than one node.                *)
ToggleSelectKeepsFocus ==
    [][\A r \in Refs, pt \in MousePts :
          (/\ interactionMode = "normal" /\ ctrlDown /\ ~shiftDown
           /\ NodeMouseDown(r, 0, pt))
          => /\ focusedId' = focusedId
             /\ selectedIds' = IF heap[r].id \in selectedIds
                               THEN selectedIds \ {heap[r].id}
                               ELSE selectedIds \cup {heap[r].id}]_vars

(* C13: on release of a selection box with rectangle S the selection is    *)
(* exactly the active zones, the non-zone nodes whose rectangle lies inside *)
(* an active zone, and the non-zone nodes whose rectangle intersects S; a   *)
(* zone is active iff it intersects S with neither containing the other,    *)
(* or S contains it.                                                        *)
GroupSelectionResult ==
    [][\A pt \in BoxPts :
          (selecting /\ MouseUp(pt)) =>
          LET S == BoxRect(selectStart, pt)
              N == 1..Len(nodes)
              Rect(i) == ScreenRect(heap[nodes[i]])
              Zone(i) == heap[nodes[i]].type = "zone"
              Active(i) ==
                  /\ Zone(i)
                  /\ \/ /\ rectIntersects(Rect(i), S)
                        /\ ~rectContains(Rect(i), S)
                        /\ ~rectContains(S, Rect(i))
                     \/ rectContains(S, Rect(i))
          IN  selectedIds' =
                  {heap[nodes[i]].id : i \in {j \in N : Active(j)}}
                  \cup {heap[nodes[i]].id : i \in {j \in N :
                          ~Zone(j) /\ \E z \in N : Active(z) /\ rectContains(Rect(z), Rect(j))}}
                  \cup {heap[nodes[i]].id : i \in {j \in N :
                          ~Zone(j) /\ rectIntersects(Rect(j), S)}}]_vars

(* a released box partly overlapped a zone and did not touch a note inside  *)
(* that zone: the zone and the note are the selection                       *)
BoxEscapedZone ==
    /\ ~mouseDown
    /\ lastBox # NoBox
    /\ \E i, j \in 1..Len(nodes) :
          LET Z == ScreenRect(heap[nodes[i]])
              R == ScreenRect(heap[nodes[j]])
          IN  /\ heap[nodes[i]].type = "zone" /\ heap[nodes[j]].type # "zone"
              /\ rectIntersects(Z, lastBox)
              /\ ~rectContains(Z, lastBox) /\ ~rectContains(lastBox, Z)
              /\ rectContains(Z, R) /\ ~rectIntersects(R, lastBox)
              /\ selectedIds = {heap[nodes[i]].id, heap[nodes[j]].id}

-----------------------------------------------------------------------------
(* Properties of the interaction mode                                       *)

(* C15: the interaction mode is always one of normal, draw, text; only the  *)
(* two toggles change it; the draw toggle sets normal if the mode is draw   *)
(* and draw otherwise, the text toggle sets normal if the mode is text and  *)
(* text otherwise.                                                          *)
ModeExclusive ==
    /\ [](interactionMode \in {"normal", "draw", "text"})
    /\ [][/\ interactionMode' # interactionMode => DrawToggle \/ TextToggle
          /\ DrawToggle => \/ interactionMode = "draw" /\ interactionMode' = "normal"
                           \/ interactionMode # "draw" /\ interactionMode' = "draw"
          /\ TextToggle => \/ interactionMode = "text" /\ interactionMode' = "normal"
                           \/ interactionMode # "text" /\ interactionMode' = "text"]_vars

(* the mode is text while a node is on the canvas *)
TextModeEntered == interactionMode = "text" /\ nodes # <<>>

ModeGating ==
    [][(/\ interactionMode # "normal"
        /\ \/ \E r \in Refs, b \in Buttons, pt \in MousePts : NodeMouseDown(r, b, pt)
           \/ \E b \in Buttons, pt \in MousePts : BackgroundMouseDown(b, pt)
           \/ \E r \in Refs : NodeDblClick(r))
       => UNCHANGED <<nodes, heap, selectedIds, focusedId, panX, panY>>]_vars

-----------------------------------------------------------------------------
(* Properties of Delete and the node ledger                                 *)

(* C18: a confirmed Delete removes exactly the nodes whose ids are in the   *)
(* selection if it is not empty, otherwise exactly the focused node, and    *)
(* is no step when neither exists; the removed nodes become one single      *)
(* entry of the undo stack; one Ctrl+Z puts every node of the latest entry  *)
(* back and one Ctrl+Y removes every node of it again.                      *)
DeleteBatch ==
    [][/\ (selectedIds = {} /\ focusedId = Null) => ~KeyDelete(TRUE)
       /\ KeyDelete(TRUE) =>
            LET K    == IF selectedIds # {} THEN selectedIds ELSE {focusedId}
                gone == {i \in 1..Len(nodes) : heap[nodes[i]].id \in K}
                top  == nodeUndo'[Len(nodeUndo')]
            IN  /\ Range(nodes') = {nodes[i] : i \in (1..Len(nodes)) \ gone}
                /\ Len(nodes') = Len(nodes) - Cardinality(gone)
                /\ Len(nodeUndo') = Len(nodeUndo) + 1
                /\ Range(top) = {nodes[i] : i \in gone}
                /\ Len(top) = Cardinality(gone)
                /\ \A r \in Range(top) : heap'[r] = heap[r]
       /\ NodeUndo =>
            LET top == nodeUndo[Len(nodeUndo)]
            IN  /\ Range(top) \subseteq Range(nodes')
                /\ Len(nodes') = Len(nodes) + Len(top)
       /\ NodeRedo =>
            LET top == nodeRedo[Len(nodeRedo)]
            IN  /\ Range(top) \cap Range(nodes') = {}
                /\ IdsOf(top, heap) \cap IdsOf(nodes', heap') = {}]_vars

(* the latest undo entry holds two nodes deleted together and the canvas    *)
(* is empty                                                                 *)
TwoDeletedAtOnce ==
    /\ nodeUndo # <<>>
    /\ Len(nodeUndo[Len(nodeUndo)]) = 2
    /\ nodes = <<>>

(* C19: for every state and every non-empty set K of ids, deleting K and    *)
(* undoing gives back the same set of nodes (ids, types, positions, sizes,  *)
(* data), and a following redo gives the nodes before the delete minus      *)
(* exactly those with ids in K.                                             *)
DeleteUndoRedoRoundTrip ==
    \A K \in (SUBSET Ids) \ {{}} :
        LET batch   == WithIds(nodes, heap, K)
            deleted == WithoutIds(nodes, heap, K)
            undone  == UndoNodes(deleted, batch)
            redone  == RedoNodes(undone, heap, batch)
        IN  /\ Len(undone) = Len(nodes)
            /\ {heap[undone[i]] : i \in 1..Len(undone)}
                   = {heap[nodes[i]] : i \in 1..Len(nodes)}
            /\ Len(redone) = Cardinality({i \in 1..Len(nodes) : heap[nodes[i]].id \notin K})
            /\ \A i \in 1..Len(nodes) :
                   heap[nodes[i]].id \notin K <=> nodes[i] \in Range(redone)

(* two nodes deleted together have been brought back by one undo: they are  *)
(* on the canvas and their batch is the latest redo entry                   *)
BatchUndone ==
    /\ nodeRedo # <<>>
    /\ Len(nodeRedo[Len(nodeRedo)]) = 2
    /\ Range(nodeRedo[Len(nodeRedo)]) \subseteq Range(nodes)

(* C20: undo takes the latest deletion batch off the undo stack, puts its   *)
(* nodes back and pushes it on the redo stack; redo takes the latest batch  *)
(* off the redo stack and pushes it on the undo stack; a confirmed delete   *)
(* pushes on the undo stack and empties the redo stack, so Ctrl+Y after a   *)
(* delete is no step.                                                       *)
LedgerStackDiscipline ==
    [][/\ NodeUndo =>
            /\ nodeUndo' = SubSeq(nodeUndo, 1, Len(nodeUndo) - 1)
            /\ nodeRedo' = Append(nodeRedo, nodeUndo[Len(nodeUndo)])
            /\ nodes' = nodes \o nodeUndo[Len(nodeUndo)]
       /\ NodeRedo =>
            /\ nodeRedo' = SubSeq(nodeRedo, 1, Len(nodeRedo) - 1)
            /\ nodeUndo' = Append(nodeUndo, nodeRedo[Len(nodeRedo)])
       /\ KeyDelete(TRUE) =>
            /\ nodeRedo' = <<>>
            /\ SubSeq(nodeUndo', 1, Len(nodeUndo)) = nodeUndo
            /\ Len(nodeUndo') = Len(nodeUndo) + 1
       /\ nodeRedo = <<>> => ~NodeRedo]_vars

(* of two deletion batches one has been undone: it is the later one         *)
LaterBatchUndone ==
    /\ Len(nodeUndo) = 1 /\ Len(nodeRedo) = 1
    /\ nodeUndo[1] # <<>> /\ nodeRedo[1] # <<>>
    /\ Range(nodeRedo[1]) \subseteq Range(nodes)

-----------------------------------------------------------------------------
(* Properties of confirmations, clipboard, import and export                *)

(* C21: answering no to the confirmation of the Delete key, of clear-all,   *)
(* of the right-click on a drawing or of the right-click on a text leaves   *)
(* state.nodes, state.drawings, state.textDrawings, selectedIds, focusedId, *)
(* both node ledgers, the persisted blob and the dirty flag unchanged.      *)
DeclinedConfirmIsNoOp ==
    [][(\/ KeyDelete(FALSE)
        \/ ClearAll(FALSE)
        \/ \E pt \in MenuPts : DrawContextMenu(pt, FALSE)
        \/ \E i \in 1..MaxStrokes : TextContextMenu(i, FALSE))
       => UNCHANGED <<nodes, heap, drawings, textDrawings, selectedIds, focusedId,
                      nodeUndo, nodeRedo, storage, isDirty>>]_vars

(* a right-click in draw mode hits a drawing, so that confirm() is asked,   *)
(* while there are a node holding the focus, a text, a deletion batch and a *)
(* persisted blob that an unwanted deletion or save would change            *)
ConfirmAsked ==
    /\ interactionMode = "draw"
    /\ \E pt \in MenuPts : HitIndex(drawings, screenToWorld(pt)) # 0
    /\ focusedId \in NodeIds /\ selectedIds # {}
    /\ textDrawings # <<>>
    /\ nodeUndo # <<>>
    /\ storage # NoBlob /\ ~isDirty

(* C22: after a copy, a later change to the copied nodes in state.nodes     *)
(* (move, field edit, delete) does not change what a paste produces, and a  *)
(* paste changes neither the clipboard nor the original nodes: a copy       *)
(* stores the values the nodes then have, nothing but a copy changes the    *)
(* clipboard, and every paste appends the stored values under new ids,      *)
(* offset by (40,40), whatever has become of the originals.                 *)
ClipboardIndependence ==
    [][/\ clipboard' # clipboard => KeyCopy
       /\ KeyCopy =>
            clipboard'.nodes =
                IF selectedIds # {}
                THEN Vals(SelectSeq(nodes, LAMBDA r : heap[r].id \in selectedIds), heap)
                ELSE <<heap[FindRef(nodes, heap, focusedId)]>>
       /\ KeyPaste =>
            LET k == Len(clipboard.nodes)
            IN  /\ Len(nodes') = Len(nodes) + k
                /\ \A i \in 1..Len(nodes) : nodes'[i] = nodes[i] /\ heap'[nodes[i]] = heap[nodes[i]]
                /\ \A i \in 1..k :
                     [heap'[nodes'[Len(nodes) + i]] EXCEPT !.id = 0]
                       = [clipboard.nodes[i] EXCEPT !.id = 0, !.x = @ + PasteOffset,
                                                    !.y = @ + PasteOffset]]_vars

(* a node was copied and then edited, and a paste has produced the node as  *)
(* it was when copied: the original carries the new text, the clone on the  *)
(* canvas the old one                                                       *)
PastedOldSnapshot ==
    /\ clipboard.nodes # <<>>
    /\ \E i, j \in 1..Len(nodes) :
          /\ heap[nodes[i]].id = clipboard.nodes[1].id
          /\ heap[nodes[i]].data # clipboard.nodes[1].data
          /\ heap[nodes[j]].id # clipboard.nodes[1].id
          /\ heap[nodes[j]].data = clipboard.nodes[1].data
          /\ heap[nodes[j]].x = clipboard.nodes[1].x + PasteOffset
          /\ heap[nodes[j]].y = clipboard.nodes[1].y + PasteOffset

EmptyPasteIsNoOp ==
    [][(clipboard.nodes = <<>> /\ KeyPaste) =>
          /\ Vals(nodes, heap)' = Vals(nodes, heap)
          /\ UNCHANGED <<selectedIds, focusedId, isDirty>>]_vars

-----------------------------------------------------------------------------
(* Properties of resizing and moving                                        *)

(* C28: during a resize of the focused node by any drag delta, w >= 160 and *)
(* h >= 120; with a left handle the right edge x + w stays where it was at  *)
(* drag start and with a top handle the bottom edge y + h does, also when   *)
(* the width or height has hit its minimum; right and bottom handles leave  *)
(* x and y unchanged.                                                       *)
ResizeAnchored ==
    [][\A pt \in ResizePts :
          ResizeMove(pt) =>
              LET n == heap'[drag.node]
              IN  /\ n.w >= MinW /\ n.h >= MinH
                  /\ drag.pos \in {"tl", "bl"} => n.x + n.w = drag.ox + drag.sw
                  /\ drag.pos \in {"tl", "tr"} => n.y + n.h = drag.oy + drag.sh
                  /\ drag.pos \in {"tr", "br"} => n.x = heap[drag.node].x
                  /\ drag.pos \in {"bl", "br"} => n.y = heap[drag.node].y]_vars

-----------------------------------------------------------------------------
(* Properties of the viewport transform                                     *)

CursorAnchoredZoom ==
    [][\A delta \in WheelSteps, pt \in WheelPts :
          Wheel(delta, pt) =>
              /\ (pt[1] - panX') * zoom = (pt[1] - panX) * zoom'
              /\ (pt[2] - panY') * zoom = (pt[2] - panY) * zoom']_vars

(* the view has been zoomed all the way out at a point that is not the      *)
(* canvas origin, so the pan has moved                                      *)
ZoomedOutAtCursor ==
    /\ zoom = MinZoom
    /\ panX # 0 /\ panY # 0
    /\ isDirty

-----------------------------------------------------------------------------
(* Properties of group moves *)

-----------------------------------------------------------------------------
(* Properties of the stroke ledger *)

(* C30: in draw mode Ctrl+Z removes the last element of state.drawings and  *)
(* pushes it on the stroke redo stack, and a Ctrl+Y after it gives back the *)
(* drawing list as it was; Ctrl+Y pops the stroke redo stack and appends    *)
(* that stroke to state.drawings; Ctrl+Z on an empty drawing list changes   *)
(* no drawing; starting a new stroke empties the stroke redo stack; neither *)
(* key changes state.nodes, selectedIds, focusedId or the node ledgers.     *)
StrokeLedger ==
    [][/\ DrawUndo =>
            IF drawings = <<>>
            THEN drawings' = drawings /\ drawRedo' = drawRedo
            ELSE /\ drawings' = SubSeq(drawings, 1, Len(drawings) - 1)
                 /\ drawRedo' = Append(drawRedo, drawings[Len(drawings)])
                 /\ StrokeRedo(drawings', drawRedo') = <<drawings, drawRedo>>
       /\ DrawRedo =>
            IF drawRedo = <<>>
            THEN drawings' = drawings /\ drawRedo' = drawRedo
            ELSE /\ drawings' = Append(drawings, drawRedo[Len(drawRedo)])
                 /\ drawRedo' = SubSeq(drawRedo, 1, Len(drawRedo) - 1)
       /\ (DrawUndo \/ DrawRedo) =>
            UNCHANGED <<nodes, heap, selectedIds, focusedId, nodeUndo, nodeRedo,
                        textDrawings>>
       /\ DrawMouseDown(0, <<500, 400>>) => drawRedo' = <<>>]_vars

(* two strokes were drawn and both undone, the later one first, while a     *)
(* note is selected and a deleted batch waits in the node ledger            *)
TwoStrokesUndone ==
    /\ interactionMode = "draw"
    /\ drawings = <<>>
    /\ Len(drawRedo) = 2
    /\ Len(drawRedo[1].points) = 2 /\ Len(drawRedo[2].points) = 1
    /\ nodes # <<>> /\ selectedIds # {}
    /\ nodeUndo # <<>>

-----------------------------------------------------------------------------
(* Properties of the save timer *)

(* C32: in every reachable state at most one debounce timeout is pending,   *)
(* and isDirty is true if and only if one is pending.                       *)
SaveTimerInvariant ==
    /\ Cardinality(timers) <= 1
    /\ isDirty <=> timers # {}

(* a scheduleSave call replaced the pending timeout of the call before it,  *)
(* and the one timeout left has run and failed to write                     *)
ReplacedTimerRan ==
    /\ burst = MaxBurst
    /\ writes = 1 /\ lastWrite = "failed"
    /\ timers = {} /\ saveTimer = Null
    /\ ~isDirty

-----------------------------------------------------------------------------
(* Properties of the keys across modes *)

(* C31: Ctrl+Z and Ctrl+Y change state.nodes and the node ledgers only in   *)
(* normal mode, change state.drawings and the stroke redo stack only in     *)
(* draw mode, and change nothing in text mode; a confirmed Delete removes   *)
(* the selected (else the focused) nodes and pushes them on the node undo   *)
(* ledger in every mode, so the nodes deleted in draw or text mode stay     *)
(* deleted under Ctrl+Z while the mode is not normal.                       *)
LedgerKeysByMode ==
    [][/\ (KeyZ \/ KeyY) =>
            /\ interactionMode # "normal" =>
                  /\ Vals(nodes', heap') = Vals(nodes, heap)
                  /\ nodeUndo' = nodeUndo /\ nodeRedo' = nodeRedo
            /\ interactionMode # "draw" =>
                  drawings' = drawings /\ drawRedo' = drawRedo
            /\ interactionMode = "text" => UNCHANGED vars
       /\ KeyDelete(TRUE) =>
            LET ids == IF selectedIds # {} THEN selectedIds ELSE {focusedId}
            IN  /\ \A q \in Range(nodes') : heap'[q].id \notin ids
                /\ Len(nodes') = Len(nodes)
                      - Cardinality({i \in 1..Len(nodes) : heap[nodes[i]].id \in ids})
                /\ Len(nodeUndo') = Len(nodeUndo) + 1
                /\ selectedIds' = {} /\ focusedId' = Null]_vars

(* in draw mode a note has been deleted and a stroke undone: the note is    *)
(* still in the node undo ledger and no longer on the canvas                *)
DeletedNoteOutlivesStrokeUndo ==
    /\ interactionMode = "draw"
    /\ nodes = <<>> /\ Len(nodeUndo) = 1 /\ nodeRedo = <<>>
    /\ drawings = <<>> /\ Len(drawRedo) = 1
    /\ ctrlDown

====
